---- MODULE Spec2Model ----
(***************************************************************************)
(* State-machine model of the simulator pipeline of                        *)
(* src/simulator/src/main.rs: one run of main() from reading the request   *)
(* on stdin to the response written on stdout.                             *)
(*                                                                         *)
(* Conventions.  A Rust String is a tuple: <<>> is the empty string, and   *)
(* a formatted string is the tuple of its pieces.  Option<T> is <<>> for   *)
(* None and <<x>> for Some(x).  Result<T,E> is <<"Ok", v>> or              *)
(* <<"Err", e>>.  A base64 text is <<"bad">> (not base64) or               *)
(* <<"b64", bytes>>; bytes are <<"raw">> (no XDR value of any type) or     *)
(* <<"xdr", type, value>>.                                                 *)
(***************************************************************************)
EXTENDS Integers, Sequences, FiniteSets, TLC

VARIABLES stdin, pc, request, envelope, source_mapper, host,
          loaded_entries_count, pending, invocation_logs, operations,
          op_index, processed, stdout

vars == <<stdin, pc, request, envelope, source_mapper, host,
          loaded_entries_count, pending, invocation_logs, operations,
          op_index, processed, stdout>>

(* ----------------------------- bounds --------------------------------- *)
MaxOps == 2
MaxPairs == 2

(* ------------------------- Option / Result ---------------------------- *)
None == <<>>
Some(x) == <<x>>
IsSome(o) == Len(o) = 1
Ok(v) == <<"Ok", v>>
Err(e) == <<"Err", e>>
IsOk(r) == r[1] = "Ok"

(* ------------------------- binary decoding ---------------------------- *)
BadB64 == <<"bad">>
B64(bytes) == <<"b64", bytes>>
Garbage == <<"raw">>
Xdr(type, v) == <<"xdr", type, v>>

Base64Decode(text) ==
    IF Len(text) = 2 /\ text[1] = "b64" THEN Ok(text[2]) ELSE Err("base64 error")

FromXdr(bytes, type) ==
    IF Len(bytes) = 3 /\ bytes[1] = "xdr" /\ bytes[2] = type
    THEN Ok(bytes[3]) ELSE Err("xdr error")

(* --------------------------- source mapper ---------------------------- *)
simulated_failure_offset == 4660

R1 == [start_offset |-> 4096, end_offset |-> <<8192>>, file |-> "lib.rs", line |-> 42]
R2 == [start_offset |-> 0, end_offset |-> <<4096>>, file |-> "lib.rs", line |-> 7]
R3 == [start_offset |-> 4608, end_offset |-> <<>>, file |-> "main.rs", line |-> 5]
SymbolRanges == {R1, R2, R3}

RECURSIVE SortByStart(_)
SortByStart(S) ==
    IF S = {} THEN <<>>
    ELSE LET m == CHOOSE r \in S : \A q \in S : r.start_offset <= q.start_offset
         IN <<m>> \o SortByStart(S \ {m})

RECURSIVE TrimOverlaps(_, _)
TrimOverlaps(sorted, floor) ==
    IF sorted = <<>> THEN <<>>
    ELSE LET r == Head(sorted)
             s == IF r.start_offset < floor THEN floor ELSE r.start_offset
             keep == r.end_offset = None \/ s < r.end_offset[1]
             next == IF r.end_offset = None THEN s + 1
                     ELSE IF r.end_offset[1] > floor THEN r.end_offset[1] ELSE floor
         IN IF keep
            THEN <<[r EXCEPT !.start_offset = s]>> \o TrimOverlaps(Tail(sorted), next)
            ELSE TrimOverlaps(Tail(sorted), floor)

DebugSection(module_bytes) ==
    IF Len(module_bytes) = 2 /\ module_bytes[1] = "wasm" THEN module_bytes[2] ELSE {}

SourceMapperNew(wasm_bytes) ==
    [table |-> TrimOverlaps(SortByStart(DebugSection(wasm_bytes)), 0)]

has_debug_symbols(mapper) == Len(mapper.table) > 0

map_wasm_offset_to_source(mapper, offset) ==
    LET cand == {i \in 1..Len(mapper.table) : mapper.table[i].start_offset <= offset}
    IN IF cand = {} THEN None
       ELSE LET i == CHOOSE j \in cand : \A k \in cand : k <= j
                r == mapper.table[i]
            IN IF r.end_offset = None \/ offset < r.end_offset[1]
               THEN Some([file |-> r.file, line |-> r.line])
               ELSE None

(* ------------------------------ inputs -------------------------------- *)
InvokeA == [body |-> "InvokeHostFunction", host_function |-> "InvokeContract",
            contract_address |-> "CA", function_name |-> "transfer",
            args |-> <<"v", "v">>]
CreateOp == [body |-> "InvokeHostFunction", host_function |-> "CreateContract",
             contract_address |-> "", function_name |-> "", args |-> <<>>]
PaymentOp == [body |-> "Payment", host_function |-> "",
              contract_address |-> "", function_name |-> "", args |-> <<>>]
OperationKinds == {InvokeA, CreateOp, PaymentOp}

OperationLists == UNION {[1..n -> OperationKinds] : n \in 0..MaxOps}

TxV1(ops) == [variant |-> "Tx", operations |-> ops, inner_tx |-> <<>>]
TxV0(ops) == [variant |-> "TxV0", operations |-> ops, inner_tx |-> <<>>]
TxFeeBump(ops) == [variant |-> "TxFeeBump", operations |-> <<>>,
                   inner_tx |-> <<TxV1(ops)>>]
Envelopes == UNION {{TxV1(ops), TxV0(ops), TxFeeBump(ops)} : ops \in OperationLists}

EnvelopeTexts == {BadB64, B64(Garbage)}
                 \cup {B64(Xdr("TransactionEnvelope", e)) : e \in Envelopes}

MetaTexts == {<<>>, BadB64, B64(Garbage), B64(Xdr("TransactionResultMeta", "meta"))}

KeyOk == B64(Xdr("LedgerKey", "key"))
EntryOk == B64(Xdr("LedgerEntry", "entry"))
PairKinds == {<<KeyOk, EntryOk>>, <<BadB64, EntryOk>>, <<B64(Garbage), EntryOk>>,
              <<KeyOk, BadB64>>, <<KeyOk, B64(Garbage)>>}

RECURSIVE BagTotal(_, _)
BagTotal(bag, S) ==
    IF S = {} THEN 0
    ELSE LET x == CHOOSE y \in S : TRUE IN bag[x] + BagTotal(bag, S \ {x})

MapSize(bag) == BagTotal(bag, PairKinds)
EmptyMap == [p \in PairKinds |-> 0]
LedgerMaps == {b \in [PairKinds -> 0..MaxPairs] : MapSize(b) <= MaxPairs}
LedgerInputs == {None} \cup {Some(b) : b \in LedgerMaps}

WasmInputs == {None, Some(BadB64)}
              \cup {Some(B64(<<"wasm", S>>)) : S \in SUBSET SymbolRanges}

Requests == [envelope_xdr : EnvelopeTexts, result_meta_xdr : MetaTexts,
             ledger_entries : LedgerInputs, contract_wasm : WasmInputs]

IoError == <<"io error">>
BadJson == <<"text", <<"not json">>>>
Json(req) == <<"text", <<"json", req>>>>

from_str(buffer) ==
    IF Len(buffer) = 2 /\ buffer[1] = "json" THEN Ok(buffer[2]) ELSE Err("json error")

(* ----------------------------- responses ------------------------------ *)
\* Faulty variant: the error message is dropped from the record
send_error_drops_message(msg, source_location) ==
    [status |-> "error", error |-> None, events |-> <<>>, logs |-> <<>>,
     source_location |-> source_location]

send_error_with_location(msg, source_location) ==
    [status |-> "error", error |-> Some(msg), events |-> <<>>, logs |-> <<>>,
     source_location |-> source_location]

send_error(msg) == send_error_with_location(msg, None)

InvalidJsonResponse(e) ==
    [status |-> "error", error |-> Some(<<"Invalid JSON: ", e>>), events |-> <<>>,
     logs |-> <<>>, source_location |-> None]

\* Faulty variant: the dispatcher lines are put before the two summary lines
SuccessLogs_trace_first(h, count, inv_logs) ==
    inv_logs \o <<  <<"Host Initialized with Budget: ", h.budget>>,
                    <<"Loaded ", ToString(count), " Ledger Entries">>  >>

SuccessLogs(h, count, inv_logs) ==
    <<  <<"Host Initialized with Budget: ", h.budget>>,
        <<"Loaded ", ToString(count), " Ledger Entries">>  >> \o inv_logs

\* main.rs 236: main never invokes the host, so its event buffer is the empty
\* one of Host::default() and the call succeeds.
get_events(h) == Ok(h.events)

SuccessResponse(h, count, inv_logs) ==
    [status |-> "success", error |-> None,
     events |-> IF IsOk(get_events(h)) THEN get_events(h)[2]
                ELSE << <<"Failed to retrieve events: ", get_events(h)[2]>> >>,
     logs |-> SuccessLogs(h, count, inv_logs),
     source_location |-> None]

(* ------------------------------ state --------------------------------- *)
NoRequest == [envelope_xdr |-> <<>>, result_meta_xdr |-> <<>>,
              ledger_entries |-> None, contract_wasm |-> None]

Init ==
    /\ \/ stdin = IoError
       \/ stdin = BadJson
       \/ \E req \in Requests : stdin = Json(req)
    /\ pc = "read"
    /\ request = NoRequest
    /\ envelope = None
    /\ source_mapper = None
    /\ host = None
    /\ loaded_entries_count = 0
    /\ pending = EmptyMap
    /\ invocation_logs = <<>>
    /\ operations = <<>>
    /\ op_index = 0
    /\ processed = <<>>
    /\ stdout = <<>>

(* ------------------------------ main() -------------------------------- *)
Emit(res) ==
    /\ stdout' = Append(stdout, res)
    /\ pc' = "done"

\* main.rs 45-49: read all of stdin; on failure print to stderr and return.
ReadStdin ==
    /\ pc = "read"
    /\ pc' = IF stdin = IoError THEN "done" ELSE "parse"
    /\ UNCHANGED <<stdin, request, envelope, source_mapper, host,
                   loaded_entries_count, pending, invocation_logs, operations,
                   op_index, processed, stdout>>

\* main.rs 52-65
ParseRequest ==
    /\ pc = "parse"
    /\ LET r == from_str(stdin[2])
       IN IF IsOk(r)
          THEN /\ request' = r[2]
               /\ pc' = "envelope"
               /\ UNCHANGED stdout
          ELSE /\ Emit(InvalidJsonResponse(r[2]))
               /\ UNCHANGED request
    /\ UNCHANGED <<stdin, envelope, source_mapper, host, loaded_entries_count,
                   pending, invocation_logs, operations, op_index, processed>>

\* main.rs 68-81
DecodeEnvelopeResult(req) ==
    LET b == Base64Decode(req.envelope_xdr)
    IN IF IsOk(b)
       THEN LET x == FromXdr(b[2], "TransactionEnvelope")
            IN IF IsOk(x) THEN Ok(x[2])
               ELSE Err(<<"Failed to parse Envelope XDR: ", x[2]>>)
       ELSE Err(<<"Failed to decode Envelope Base64: ", b[2]>>)

DecodeEnvelope ==
    /\ pc = "envelope"
    /\ LET r == DecodeEnvelopeResult(request)
       IN IF IsOk(r)
          THEN /\ envelope' = Some(r[2])
               /\ pc' = "meta"
               /\ UNCHANGED stdout
          ELSE /\ Emit(send_error(r[2]))
               /\ UNCHANGED envelope
    /\ UNCHANGED <<stdin, request, source_mapper, host, loaded_entries_count,
                   pending, invocation_logs, operations, op_index, processed>>

\* main.rs 84-103: Ok(None) also covers the base64 failure, which only warns.
DecodeResultMetaResult(req) ==
    IF Len(req.result_meta_xdr) = 0 THEN Ok(None)
    ELSE LET b == Base64Decode(req.result_meta_xdr)
         IN IF IsOk(b)
            THEN LET x == FromXdr(b[2], "TransactionResultMeta")
                 IN IF IsOk(x) THEN Ok(Some(x[2]))
                    ELSE Err(<<"Failed to parse ResultMeta XDR: ", x[2]>>)
            ELSE Ok(None)

\* main.rs 106-125
InitSourceMapperResult(req) ==
    IF IsSome(req.contract_wasm)
    THEN LET b == Base64Decode(req.contract_wasm[1])
         IN IF IsOk(b)
            THEN LET mapper == SourceMapperNew(b[2])
                 IN IF has_debug_symbols(mapper) THEN Some(mapper) ELSE None
            ELSE None
    ELSE None

\* main.rs 84-125: the result metadata is decoded and dropped (_result_meta),
\* then the source mapper is built.
DecodeResultMeta ==
    /\ pc = "meta"
    /\ LET r == DecodeResultMetaResult(request)
       IN IF IsOk(r)
          THEN /\ source_mapper' = InitSourceMapperResult(request)
               /\ pc' = "host"
               /\ UNCHANGED stdout
          ELSE /\ Emit(send_error(r[2]))
               /\ UNCHANGED source_mapper
    /\ UNCHANGED <<stdin, request, envelope, host, loaded_entries_count,
                   pending, invocation_logs, operations, op_index, processed>>

\* main.rs 128-135
HostDefault == [diagnostic_level |-> "Debug", events |-> <<>>, budget |-> "Budget"]

InitHost ==
    /\ pc = "host"
    /\ host' = Some(HostDefault)
    /\ loaded_entries_count' = 0
    /\ pending' = IF IsSome(request.ledger_entries)
                  THEN request.ledger_entries[1] ELSE EmptyMap
    /\ pc' = "ledger"
    /\ UNCHANGED <<stdin, request, envelope, source_mapper, invocation_logs,
                   operations, op_index, processed, stdout>>

\* main.rs 138-159: one (key_xdr, entry_xdr) pair of the map
LoadPair(pair) ==
    LET kb == Base64Decode(pair[1])
    IN IF ~IsOk(kb) THEN Err(<<"Failed to decode LedgerKey Base64: ", kb[2]>>)
       ELSE LET k == FromXdr(kb[2], "LedgerKey")
            IN IF ~IsOk(k) THEN Err(<<"Failed to parse LedgerKey XDR: ", k[2]>>)
               ELSE LET eb == Base64Decode(pair[2])
                    IN IF ~IsOk(eb)
                       THEN Err(<<"Failed to decode LedgerEntry Base64: ", eb[2]>>)
                       ELSE LET e == FromXdr(eb[2], "LedgerEntry")
                            IN IF ~IsOk(e)
                               THEN Err(<<"Failed to parse LedgerEntry XDR: ", e[2]>>)
                               ELSE Ok(<<k[2], e[2]>>)

\* Faulty variant: a pair that fails to decode is skipped instead of ending the run
LoadLedgerEntry_skips_bad ==
    /\ pc = "ledger"
    /\ \E pair \in PairKinds :
          /\ pending[pair] > 0
          /\ pending' = [pending EXCEPT ![pair] = @ - 1]
          /\ loaded_entries_count' =
                IF IsOk(LoadPair(pair)) THEN loaded_entries_count + 1
                ELSE loaded_entries_count
    /\ UNCHANGED <<stdin, pc, request, envelope, source_mapper, host,
                   invocation_logs, operations, op_index, processed, stdout>>

\* main.rs 136-165: one iteration of the loop over the HashMap, whose
\* iteration order is unspecified.
LoadLedgerEntry ==
    /\ pc = "ledger"
    /\ \E pair \in PairKinds :
          /\ pending[pair] > 0
          /\ LET r == LoadPair(pair)
             IN IF IsOk(r)
                THEN /\ loaded_entries_count' = loaded_entries_count + 1
                     /\ pending' = [pending EXCEPT ![pair] = @ - 1]
                     /\ UNCHANGED <<pc, stdout>>
                ELSE /\ Emit(send_error(r[2]))
                     /\ UNCHANGED <<loaded_entries_count, pending>>
    /\ UNCHANGED <<stdin, request, envelope, source_mapper, host,
                   invocation_logs, operations, op_index, processed>>

\* main.rs 171-177
OperationsOf(env) ==
    IF env.variant = "TxFeeBump" THEN env.inner_tx[1].operations
    ELSE env.operations

\* main.rs 168-177
ExtractOperations ==
    /\ pc = "ledger"
    /\ MapSize(pending) = 0
    /\ invocation_logs' = <<>>
    /\ operations' = OperationsOf(envelope[1])
    /\ op_index' = 0
    /\ pc' = "dispatch"
    /\ UNCHANGED <<stdin, request, envelope, source_mapper, host,
                   loaded_entries_count, pending, processed, stdout>>

IsInvokeContract(op) ==
    op.body = "InvokeHostFunction" /\ op.host_function = "InvokeContract"

\* Faulty variant: every operation that is not a contract invocation logs a skip line
OpTrace_skips_all(op) ==
    IF op.body = "InvokeHostFunction" /\ op.host_function = "InvokeContract"
    THEN <<  <<"About to Invoke Contract: ", op.contract_address>>,
             <<"Function: ", op.function_name>>,
             <<"Args Count: ", ToString(Len(op.args))>>  >>
    ELSE << <<"Skipping non-InvokeContract Host Function">> >>

\* main.rs 181-222: the lines one operation pushes on invocation_logs
OpTrace(op) ==
    IF op.body = "InvokeHostFunction"
    THEN IF op.host_function = "InvokeContract"
         THEN <<  <<"About to Invoke Contract: ", op.contract_address>>,
                  <<"Function: ", op.function_name>>,
                  <<"Args Count: ", ToString(Len(op.args))>>  >>
         ELSE << <<"Skipping non-InvokeContract Host Function">> >>
    ELSE <<>>

\* main.rs 196-213: the simulated failure of an InvokeContract operation
FaultLocation(mapper, op) ==
    IF IsInvokeContract(op) /\ IsSome(mapper)
    THEN map_wasm_offset_to_source(mapper[1], simulated_failure_offset)
    ELSE None

\* main.rs 207-210
ContractFailedMsg(location) ==
    <<"Contract execution failed. Failed at line ", ToString(location.line),
      " in ", location.file>>

\* Faulty variant: a located fault is noted but the loop goes on to the next operation
DispatchOp_no_halt ==
    /\ pc = "dispatch"
    /\ op_index < Len(operations)
    /\ processed' = Append(processed, op_index + 1)
    /\ invocation_logs' = invocation_logs \o OpTrace(operations[op_index + 1])
    /\ op_index' = op_index + 1
    /\ UNCHANGED <<stdin, pc, request, envelope, source_mapper, host,
                   loaded_entries_count, pending, operations, stdout>>

\* main.rs 180-223: one iteration of the loop over the operations
DispatchOp ==
    /\ pc = "dispatch"
    /\ op_index < Len(operations)
    /\ LET op == operations[op_index + 1]
           loc == FaultLocation(source_mapper, op)
       IN /\ processed' = Append(processed, op_index + 1)
          /\ invocation_logs' = invocation_logs \o OpTrace(op)
          /\ op_index' = op_index + 1
          /\ IF IsSome(loc)
             THEN Emit(send_error_with_location(ContractFailedMsg(loc[1]), loc))
             ELSE UNCHANGED <<pc, stdout>>
    /\ UNCHANGED <<stdin, request, envelope, source_mapper, host,
                   loaded_entries_count, pending, operations>>

\* main.rs 236-261
Respond ==
    /\ pc = "dispatch"
    /\ op_index = Len(operations)
    /\ Emit(SuccessResponse(host[1], loaded_entries_count, invocation_logs))
    /\ UNCHANGED <<stdin, request, envelope, source_mapper, host,
                   loaded_entries_count, pending, invocation_logs, operations,
                   op_index, processed>>

Next ==
    \/ ReadStdin
    \/ ParseRequest
    \/ DecodeEnvelope
    \/ DecodeResultMeta
    \/ InitHost
    \/ LoadLedgerEntry
    \/ ExtractOperations
    \/ DispatchOp
    \/ Respond

Spec == Init /\ [][Next]_vars

(* ======================= properties of the run ======================== *)
\* What the run was given, read off stdin alone.
HasRequest == stdin # IoError /\ stdin # BadJson
Req == stdin[2][2]

Decodes(text, type) ==
    /\ IsOk(Base64Decode(text))
    /\ IsOk(FromXdr(Base64Decode(text)[2], type))

EnvelopeMalformed == ~Decodes(Req.envelope_xdr, "TransactionEnvelope")
MetaMalformed ==
    /\ Req.result_meta_xdr # <<>>
    /\ ~Decodes(Req.result_meta_xdr, "TransactionResultMeta")
MetaSchemaError ==
    /\ IsOk(Base64Decode(Req.result_meta_xdr))
    /\ ~IsOk(FromXdr(Base64Decode(Req.result_meta_xdr)[2], "TransactionResultMeta"))
PairMalformed(p) == ~Decodes(p[1], "LedgerKey") \/ ~Decodes(p[2], "LedgerEntry")
ReqPairs == IF IsSome(Req.ledger_entries) THEN Req.ledger_entries[1] ELSE EmptyMap
LedgerMalformed == \E p \in PairKinds : ReqPairs[p] > 0 /\ PairMalformed(p)
WasmMalformed ==
    /\ IsSome(Req.contract_wasm)
    /\ ~IsOk(Base64Decode(Req.contract_wasm[1]))

InputEnvelope == Base64Decode(Req.envelope_xdr)[2][3]
InputOps ==
    CASE InputEnvelope.variant = "Tx" -> InputEnvelope.operations
      [] InputEnvelope.variant = "TxV0" -> InputEnvelope.operations
      [] InputEnvelope.variant = "TxFeeBump" -> InputEnvelope.inner_tx[1].operations

Finished == pc = "done"
OneResponse == Len(stdout) = 1
Response == stdout[1]
Succeeded == Finished /\ OneResponse /\ Response.status = "success"

SkipLine == <<"Skipping non-InvokeContract Host Function">>
CountLines(lines, l) == Cardinality({j \in DOMAIN lines : lines[j] = l})
CountOps(ops, P(_)) == Cardinality({j \in DOMAIN ops : P(ops[j])})
IsOtherHostFn(op) ==
    op.body = "InvokeHostFunction" /\ op.host_function # "InvokeContract"
NotContractInvocation(op) == ~IsInvokeContract(op)

\* The location the mapper of this run gives the simulated fault offset.
ResolvedLocation ==
    IF IsSome(source_mapper)
    THEN map_wasm_offset_to_source(source_mapper[1], simulated_failure_offset)
    ELSE None
InvokeProcessed ==
    \E i \in DOMAIN processed : IsInvokeContract(operations[processed[i]])

\* C1: every run that has ended has written exactly one response record to
\* stdout, whatever path it took (read failure, bad JSON, decode failure,
\* located fault, clean path).
C1_ExactlyOneResponse == Finished => OneResponse

\* C2: a run whose request holds an artifact that fails base64 or schema
\* decoding (envelope_xdr, non-empty result_meta_xdr, a ledger key or entry,
\* contract_wasm) ends with a response of status error, never success.
C2_MalformedArtifactIsError ==
    (Finished /\ HasRequest
       /\ (EnvelopeMalformed \/ MetaMalformed \/ LedgerMalformed \/ WasmMalformed))
    => (OneResponse /\ Response.status = "error")

\* C3: the trace lines of every InvokeContract operation the dispatcher
\* reached are in the logs of the response finally written, success or error.
C3_TraceLinesInFinalLogs ==
    (Finished /\ OneResponse)
    => \A i \in DOMAIN processed :
          IsInvokeContract(operations[processed[i]])
          => \A k \in 1..3 :
                CountLines(Response.logs, OpTrace(operations[processed[i]])[k]) > 0

\* C4: a run in which an invocation faulted (the mapper branch simulated the
\* failure) and the offset resolved to no location ends with status error and
\* no source_location, never with success.
C4_UnlocatedFaultIsError ==
    (Finished /\ OneResponse /\ InvokeProcessed
       /\ IsSome(source_mapper) /\ ResolvedLocation = None)
    => (Response.status = "error" /\ Response.source_location = None)

\* C5: operations are processed strictly in envelope order, and once an
\* InvokeContract operation was processed while the mapper resolves the fault
\* offset, the run has ended there: that operation is the first InvokeContract
\* of the envelope, nothing after it was processed, and the single response is
\* the error "Contract execution failed. Failed at line {line} in {file}" of
\* the resolved location, which is also its source_location.
C5_HaltAtFirstLocatedFault ==
    /\ \A i \in DOMAIN processed : processed[i] = i
    /\ (InvokeProcessed /\ IsSome(ResolvedLocation))
       => /\ Finished /\ OneResponse
          /\ Response.status = "error"
          /\ Response.error =
                Some(<<"Contract execution failed. Failed at line ",
                       ToString(ResolvedLocation[1].line), " in ",
                       ResolvedLocation[1].file>>)
          /\ Response.source_location = ResolvedLocation
          /\ IsInvokeContract(operations[Len(processed)])
          /\ \A j \in 1..(Len(processed) - 1) : ~IsInvokeContract(operations[j])

C5_Witness ==
    /\ Finished /\ OneResponse
    /\ IsSome(Response.source_location)
    /\ operations = <<InvokeA, CreateOp>>
    /\ processed = <<1>>

\* C6 as written: on a clean run the logs hold one skip record for every
\* operation that is not an InvokeHostFunction carrying a contract invocation.
C6_EveryOtherOpSkipped ==
    Succeeded
    => CountLines(Response.logs, SkipLine) = CountOps(InputOps, NotContractInvocation)

\* C6 amended: no operation other than a contract invocation causes an error
\* response; on a clean run the logs hold one skip record for every
\* InvokeHostFunction operation whose host function is not InvokeContract, and
\* an operation with another body leaves no log line at all.
C6_HostFunctionSkipsRecorded ==
    /\ (Finished /\ OneResponse /\ Response.status = "error" /\ Len(processed) > 0)
       => IsInvokeContract(operations[processed[Len(processed)]])
    /\ Succeeded
       => /\ CountLines(Response.logs, SkipLine) = CountOps(InputOps, IsOtherHostFn)
          /\ Len(Response.logs) =
                2 + 3 * CountOps(InputOps, IsInvokeContract)
                  + CountOps(InputOps, IsOtherHostFn)

C6_Witness ==
    /\ Succeeded
    /\ CountOps(InputOps, IsOtherHostFn) = 1
    /\ \E j \in DOMAIN InputOps : InputOps[j].body = "Payment"

RECURSIVE ExpectedTrace(_)
ExpectedTrace(ops) ==
    IF ops = <<>> THEN <<>>
    ELSE LET op == Head(ops)
             lines ==
               CASE op.body = "InvokeHostFunction" /\ op.host_function = "InvokeContract"
                      -> <<  <<"About to Invoke Contract: ", op.contract_address>>,
                             <<"Function: ", op.function_name>>,
                             <<"Args Count: ", ToString(Len(op.args))>>  >>
                 [] op.body = "InvokeHostFunction" /\ op.host_function # "InvokeContract"
                      -> <<SkipLine>>
                 [] OTHER -> <<>>
         IN lines \o ExpectedTrace(Tail(ops))

\* C7: on a clean outcome the logs are the host-initialization line, then
\* "Loaded N Ledger Entries" with N the number of pairs of the request, then
\* the trace lines in the order of the envelope's operations (fee-bump
\* unwrapped one level); and a request with zero operations, no ledger
\* entries, no module and result metadata that is empty or well formed ends
\* in success with no events and exactly those two lines.
C7_CleanLogsInFixedOrder ==
    /\ Succeeded
       => Response.logs =
             <<  <<"Host Initialized with Budget: ", "Budget">>,
                 <<"Loaded ", ToString(MapSize(ReqPairs)), " Ledger Entries">>  >>
             \o ExpectedTrace(InputOps)
    /\ (Finished /\ HasRequest /\ ~EnvelopeMalformed /\ ~MetaSchemaError
          /\ InputOps = <<>> /\ Req.ledger_entries = None /\ Req.contract_wasm = None)
       => /\ Succeeded
          /\ Response.events = <<>>
          /\ Len(Response.logs) = 2
          /\ Response.logs[2] = <<"Loaded ", "0", " Ledger Entries">>

C7_Witness ==
    /\ Succeeded
    /\ InputEnvelope.variant = "TxFeeBump"
    /\ InputOps = <<CreateOp, InvokeA>>
    /\ MapSize(ReqPairs) = 2

C7_WitnessEmpty ==
    /\ Succeeded
    /\ InputOps = <<>> /\ Req.ledger_entries = None /\ Req.contract_wasm = None

ExpectedPairError(p) ==
    CASE ~IsOk(Base64Decode(p[1])) -> "Failed to decode LedgerKey Base64: "
      [] IsOk(Base64Decode(p[1])) /\ ~Decodes(p[1], "LedgerKey")
           -> "Failed to parse LedgerKey XDR: "
      [] Decodes(p[1], "LedgerKey") /\ ~IsOk(Base64Decode(p[2]))
           -> "Failed to decode LedgerEntry Base64: "
      [] OTHER -> "Failed to parse LedgerEntry XDR: "

ReachesLedger == HasRequest /\ ~EnvelopeMalformed /\ ~MetaSchemaError

\* C8: when the ledger records are loaded and one of the request's pairs fails
\* to decode, the run ends, in whatever order the pairs are visited, with the
\* error of a pair of the request that fails; a success response is written
\* only when every pair decoded, and it reports all of them.
C8_LedgerLoadingFailFast ==
    /\ (Finished /\ ReachesLedger /\ LedgerMalformed)
       => /\ OneResponse
          /\ Response.status = "error"
          /\ \E p \in PairKinds :
                /\ ReqPairs[p] > 0
                /\ PairMalformed(p)
                /\ Response.error[1][1] = ExpectedPairError(p)
    /\ \A i \in DOMAIN stdout :
          stdout[i].status = "success"
          => /\ ~LedgerMalformed
             /\ loaded_entries_count = MapSize(ReqPairs)
             /\ stdout[i].logs[2] =
                   <<"Loaded ", ToString(MapSize(ReqPairs)), " Ledger Entries">>

C8_Witness ==
    /\ Finished /\ OneResponse
    /\ ReachesLedger /\ LedgerMalformed
    /\ Response.status = "error"
    /\ loaded_entries_count = 1
    /\ ReqPairs[<<KeyOk, EntryOk>>] = 1

\* C9: in every response written, status is success and error is absent, or
\* status is error and error is present; source_location is present only in
\* an error response, and then it is the location the mapper resolved.
C9_StatusErrorLocationConsistent ==
    \A i \in DOMAIN stdout :
       /\ \/ stdout[i].status = "success" /\ stdout[i].error = None
          \/ stdout[i].status = "error" /\ IsSome(stdout[i].error)
       /\ IsSome(stdout[i].source_location)
          => /\ stdout[i].status = "error"
             /\ IsSome(source_mapper)
             /\ stdout[i].source_location = ResolvedLocation

C9_Witness ==
    /\ Finished /\ OneResponse
    /\ Response.status = "error"
    /\ Response.source_location = Some([file |-> "main.rs", line |-> 5])

FirstFailurePrefixes ==
    IF stdin = BadJson THEN {"Invalid JSON: "}
    ELSE IF EnvelopeMalformed
         THEN {"Failed to decode Envelope Base64: ", "Failed to parse Envelope XDR: "}
         ELSE IF MetaMalformed
              THEN {"Failed to decode ResultMeta Base64: ",
                    "Failed to parse ResultMeta XDR: "}
              ELSE {ExpectedPairError(p) :
                      p \in {q \in PairKinds : ReqPairs[q] > 0 /\ PairMalformed(q)}}

\* C10: when the JSON, the envelope, the result metadata or a ledger key or
\* entry is malformed, the response has status error, empty events and logs,
\* no source_location, and an error message naming the first artifact, in
\* processing order, that failed to decode.
C10_EarlyDecodeFailureResponse ==
    (Finished
       /\ (stdin = BadJson
           \/ (HasRequest /\ (EnvelopeMalformed \/ MetaMalformed \/ LedgerMalformed))))
    => /\ OneResponse
       /\ Response.status = "error"
       /\ Response.events = <<>>
       /\ Response.logs = <<>>
       /\ Response.source_location = None
       /\ Response.error[1][1] \in FirstFailurePrefixes
====
